---- MODULE Spec2Model ----
(***************************************************************************)
(* Clinical trial matching pipeline.                                       *)
(*                                                                         *)
(* Three entry points are modelled:                                        *)
(*   "remote"  POST /match_trials (app.py) driving the MCP-backed          *)
(*             ClinicalTrialMatcher.match_patient_to_trials                *)
(*             (src/clinical_trial_matcher.py in the package directory);   *)
(*   "static"  match_patient_to_trials of the flat-file matcher            *)
(*             (clinical_trial_matcher.py at the repository root);         *)
(*   "stream"  the generator of POST /deidentify_and_match_stream.         *)
(*                                                                         *)
(* The reasoning oracle, the trial source and the de-identification        *)
(* service are the environment: every response they give is drawn from a   *)
(* small set of response shapes at the moment the call is made.            *)
(***************************************************************************)
EXTENDS Integers, Sequences, FiniteSets, TLC

\* ------------------------------------------------------------- bounds
\* Most studies one list_studies response carries, and most blocks a
\* trials file holds.
MaxStudies == 2
\* Largest max_trials a caller asks for explicitly.
MaxResults == 2

\* ------------------------------------------------- program constants
\* app.py: `request.max_trials or 10`
DefaultMaxTrials == 10
\* app.py: `_search_trials_via_mcp(conditions, max_studies=20)`
StreamMaxStudies == 20

\* ------------------------------------------------------------ helpers
\* Optional[T]: None is the empty sequence, a value x is <<x>>.
None == <<>>
Some(x) == <<x>>

Min(a, b) == IF a <= b THEN a ELSE b
Max(a, b) == IF a >= b THEN a ELSE b

\* Python's seq[:n]: a negative n drops the last -n elements.
PySlice(s, n) ==
    IF n >= 0 THEN SubSeq(s, 1, Min(n, Len(s)))
              ELSE SubSeq(s, 1, Max(0, Len(s) + n))

Range(s) == {s[k] : k \in 1..Len(s)}

SeqsUpTo(S, n) == UNION {[1..k -> S] : k \in 0..n}

\* A decoded JSON scalar: a string or a number (kept as text).
JStr(v) == [t |-> "str", v |-> v]
JNum(v) == [t |-> "num", v |-> v]

\* ", ".join(xs) / " ".join(xs) raise TypeError unless every item is a str.
JoinRaises(xs) == \E k \in 1..Len(xs) : xs[k].t # "str"

\* --------------------------------------------------- condition oracle
\* What the oracle answers to the extraction prompt.  api_ok: the call
\* returned; bracket: the text matched by \[.*\] if any, with whether it
\* decodes and what it decodes to; quoted: the double-quoted substrings.
ConditionLists ==
    { <<>>,
      <<JStr("breast cancer")>>,
      <<JStr("breast cancer"), JStr("stage IV")>>,
      <<JNum("1")>> }

ExtractResponses ==
    { [api_ok |-> FALSE, bracket |-> None, quoted |-> <<>>] }
    \cup { [api_ok |-> TRUE, bracket |-> Some([valid |-> TRUE, items |-> c]),
            quoted |-> <<>>] : c \in ConditionLists }
    \cup { [api_ok |-> TRUE, bracket |-> Some([valid |-> FALSE, items |-> <<>>]),
            quoted |-> <<JStr("breast cancer")>>],
           [api_ok |-> TRUE, bracket |-> None, quoted |-> <<JStr("breast cancer")>>],
           [api_ok |-> TRUE, bracket |-> None, quoted |-> <<>>] }

\* ClinicalTrialMatcher._extract_conditions_from_patient_data: one oracle
\* call; any exception (the call, json.loads) is caught and gives [].
_extract_conditions_from_patient_data(resp) ==
    IF ~resp.api_ok THEN <<>>
    ELSE IF resp.bracket # None
         THEN IF resp.bracket[1].valid THEN resp.bracket[1].items ELSE <<>>
         ELSE resp.quoted

\* The fallback of match_patient_to_trials for an empty extraction.
FallbackConditions == <<JStr("clinical trial")>>

\* ------------------------------------------------------- MCP transport
\* One HTTP exchange with the MCP server.  net: what requests.post did;
\* status: the HTTP status; sse: whether a "data: " line is present;
\* outer: how the JSON-RPC envelope decodes; inner: how the embedded text
\* decodes; data: the decoded payload.
McpFailures(d) ==
    { [net |-> "timeout",    status |-> 0,   sse |-> FALSE, outer |-> "ok", inner |-> "ok", data |-> d],
      [net |-> "connection", status |-> 0,   sse |-> FALSE, outer |-> "ok", inner |-> "ok", data |-> d],
      [net |-> "ok",         status |-> 502, sse |-> FALSE, outer |-> "ok", inner |-> "ok", data |-> d],
      [net |-> "ok",         status |-> 500, sse |-> TRUE,  outer |-> "ok", inner |-> "ok", data |-> d],
      [net |-> "ok",         status |-> 200, sse |-> FALSE, outer |-> "ok", inner |-> "ok", data |-> d],
      [net |-> "ok",         status |-> 200, sse |-> TRUE,  outer |-> "bad_json",   inner |-> "ok", data |-> d],
      [net |-> "ok",         status |-> 200, sse |-> TRUE,  outer |-> "no_result",  inner |-> "ok", data |-> d],
      [net |-> "ok",         status |-> 200, sse |-> TRUE,  outer |-> "no_content", inner |-> "ok", data |-> d],
      [net |-> "ok",         status |-> 200, sse |-> TRUE,  outer |-> "no_text",    inner |-> "ok", data |-> d],
      [net |-> "ok",         status |-> 200, sse |-> TRUE,  outer |-> "ok", inner |-> "bad_json", data |-> d] }

McpOk(d) ==
    [net |-> "ok", status |-> 200, sse |-> TRUE, outer |-> "ok", inner |-> "ok", data |-> d]

\* Variant that hands back the undecoded text when the embedded JSON does
\* not decode.
_call_mcp_tool_raw_text(resp) ==
    IF resp.net # "ok" THEN None
    ELSE IF resp.status = 200
         THEN IF ~resp.sse THEN None
              ELSE IF resp.outer # "ok" THEN None
              ELSE IF resp.inner # "ok" THEN Some([resp.data EXCEPT !.t = "nondict"])
              ELSE Some(resp.data)
         ELSE None

\* ClinicalTrialMatcher._call_mcp_tool: the parsed payload, or None on any
\* failure (every exception is caught inside).
_call_mcp_tool(resp) ==
    IF resp.net # "ok" THEN None
    ELSE IF resp.status = 200
         THEN IF ~resp.sse THEN None
              ELSE IF resp.outer # "ok" THEN None
              ELSE IF resp.inner # "ok" THEN None
              ELSE Some(resp.data)
         ELSE None

\* ------------------------------------------------------ search (remote)
\* One entry of the "studies" array.  kind "study": a dict whose
\* protocolSection.identificationModule path is made of dicts, nctId ""
\* standing for a missing, null or empty identifier; "nondict": the entry
\* is not a dict; "badproto": protocolSection or identificationModule is
\* present but is not a dict (null, a string).
StudyEntries ==
    { [kind |-> "study",    nctId |-> "NCT1"],
      [kind |-> "study",    nctId |-> "NCT2"],
      [kind |-> "study",    nctId |-> ""],
      [kind |-> "nondict",  nctId |-> ""],
      [kind |-> "badproto", nctId |-> ""] }

\* The decoded list_studies payload.  t "empty": a falsy value ({}, [],
\* null); "list": a truthy non-dict; "dict": an object whose "studies" key
\* is absent, a list, something else that has a length ("other": a string,
\* an object) or something that has none ("unsized": null, a number).
ListStudiesData ==
    { [t |-> "empty", studies_t |-> "absent", studies |-> <<>>],
      [t |-> "list",  studies_t |-> "absent", studies |-> <<>>],
      [t |-> "dict",  studies_t |-> "absent", studies |-> <<>>],
      [t |-> "dict",  studies_t |-> "other",  studies |-> <<>>],
      [t |-> "dict",  studies_t |-> "unsized", studies |-> <<>>] }
    \cup { [t |-> "dict", studies_t |-> "list", studies |-> st] :
             st \in SeqsUpTo(StudyEntries, MaxStudies) }

ListStudiesResponses ==
    McpFailures([t |-> "empty", studies_t |-> "absent", studies |-> <<>>])
    \cup { McpOk(d) : d \in ListStudiesData }

IsIdentified(e) == e.kind = "study" /\ e.nctId # ""

\* The nct_ids list built by the loop over studies, in response order.
NctIds(studies) ==
    LET kept == SelectSeq(studies, IsIdentified)
    IN  [k \in 1..Len(kept) |-> kept[k].nctId]

\* ClinicalTrialMatcher._search_trials_via_mcp.  Nothing in it is guarded
\* by try/except except the transport call, so the join of non-string
\* conditions, len(studies) of a value without length, a non-dict
\* protocolSection and the diagnostic studies[0].keys() on a non-dict
\* entry raise to the caller.
_search_trials_via_mcp(conditions, max_studies, resp) ==
    LET result == _call_mcp_tool(resp)
        data   == result[1]
    IN  IF JoinRaises(conditions) THEN [raised |-> TRUE, ids |-> <<>>]
        ELSE IF result = None \/ data.t = "empty" THEN [raised |-> FALSE, ids |-> <<>>]
        ELSE IF data.t # "dict" THEN [raised |-> FALSE, ids |-> <<>>]
        ELSE IF data.studies_t = "unsized" THEN [raised |-> TRUE, ids |-> <<>>]
        ELSE IF data.studies_t # "list" \/ data.studies = <<>>
             THEN [raised |-> FALSE, ids |-> <<>>]
        ELSE IF \E k \in 1..Len(data.studies) : data.studies[k].kind = "badproto"
             THEN [raised |-> TRUE, ids |-> <<>>]
        ELSE IF NctIds(data.studies) # <<>>
             THEN [raised |-> FALSE, ids |-> PySlice(NctIds(data.studies), max_studies)]
        ELSE IF data.studies[1].kind = "nondict"
             THEN [raised |-> TRUE, ids |-> <<>>]
        ELSE [raised |-> FALSE, ids |-> <<>>]

\* ------------------------------------------------------- fetch (remote)
\* The decoded get_study payload.  t as above; protocol "absent": no (or an
\* empty) protocolSection; "bad": protocolSection or one of its modules is
\* not a dict; briefTitle / officialTitle: the identification titles;
\* criteria: whether eligibilityCriteria is present; contact "ok": a
\* central contact with name and phone, "bad": centralContact[0] is not a
\* dict.
GetStudyData ==
    { [t |-> "empty",   protocol |-> "absent", briefTitle |-> None, officialTitle |-> None,
       criteria |-> FALSE, contact |-> "none"],
      [t |-> "nondict", protocol |-> "absent", briefTitle |-> None, officialTitle |-> None,
       criteria |-> FALSE, contact |-> "none"],
      [t |-> "dict",    protocol |-> "absent", briefTitle |-> None, officialTitle |-> None,
       criteria |-> FALSE, contact |-> "none"],
      [t |-> "dict",    protocol |-> "bad",    briefTitle |-> None, officialTitle |-> None,
       criteria |-> FALSE, contact |-> "none"],
      [t |-> "dict",    protocol |-> "ok",     briefTitle |-> Some(JStr("Study A")),
       officialTitle |-> Some("Official A"), criteria |-> TRUE, contact |-> "ok"],
      [t |-> "dict",    protocol |-> "ok",     briefTitle |-> None, officialTitle |-> None,
       criteria |-> FALSE, contact |-> "none"],
      [t |-> "dict",    protocol |-> "ok",     briefTitle |-> Some(JStr("Study A")),
       officialTitle |-> None, criteria |-> TRUE, contact |-> "bad"],
      [t |-> "dict",    protocol |-> "ok",     briefTitle |-> Some(JNum("7")),
       officialTitle |-> None, criteria |-> TRUE, contact |-> "none"] }

GetStudyResponses ==
    McpFailures([t |-> "empty", protocol |-> "absent", briefTitle |-> None,
                 officialTitle |-> None, criteria |-> FALSE, contact |-> "none"])
    \cup { McpOk(d) : d \in GetStudyData }

NotAvailable == "Not available"
ContactJoined == "Dr. A | Phone: 555-0100"

\* The labelled sections of full_text, in the order they are appended.
FullTextParts(data) ==
    (IF data.briefTitle # None
        THEN <<"TRIAL ID", "NAME">>
             \o (IF data.officialTitle # None THEN <<"OFFICIAL TITLE">> ELSE <<>>)
        ELSE <<>>)
    \o (IF data.criteria THEN <<"ELIGIBILITY CRITERIA">> ELSE <<>>)

\* trial["trial_name"] = briefTitle or officialTitle or "Unknown"
TrialName(data) ==
    IF data.briefTitle # None THEN data.briefTitle[1]
    ELSE IF data.officialTitle # None THEN JStr(data.officialTitle[1])
    ELSE JStr("Unknown")

\* ClinicalTrialMatcher._get_trial_details_via_mcp: None when the tool
\* call gave nothing; otherwise a trial dict.  A non-dict module, a
\* non-dict contact and the [:60] slice of a non-string name raise.
_get_trial_details_via_mcp(nct_id, resp) ==
    LET result == _call_mcp_tool(resp)
        data   == result[1]
        blank  == [trial_id |-> nct_id, trial_name |-> Some("Unknown"),
                   contact_info |-> Some(NotAvailable), full_text |-> <<>>]
    IN  IF result = None \/ data.t = "empty" THEN [raised |-> FALSE, trial |-> None]
        ELSE IF data.t # "dict"
             THEN [raised |-> FALSE, trial |-> Some([blank EXCEPT !.full_text = <<"STR">>])]
        ELSE IF data.protocol = "absent"
             THEN [raised |-> FALSE, trial |-> Some([blank EXCEPT !.full_text = <<"RAW JSON">>])]
        ELSE IF data.protocol = "bad" \/ data.contact = "bad"
             THEN [raised |-> TRUE, trial |-> None]
        ELSE IF TrialName(data).t # "str"
             THEN [raised |-> TRUE, trial |-> None]
        ELSE [raised |-> FALSE,
              trial |-> Some([trial_id     |-> nct_id,
                              trial_name   |-> Some(TrialName(data).v),
                              contact_info |-> Some(IF data.contact = "ok"
                                                    THEN ContactJoined ELSE NotAvailable),
                              full_text    |-> FullTextParts(data)])]

\* -------------------------------------------------- static trials file
\* One block of the trials file.  marker: the block contains the exact
\* text "TRIAL ID:"; id / name / contact: what the three regular
\* expressions capture (None: no match).  A block written "Trial Id: T9"
\* matches the case-insensitive id pattern but carries no marker.
TrialBlocks ==
    { [marker |-> TRUE,  id |-> Some("T1"), name |-> Some("Test Trial"),  contact |-> Some("t1@site.org")],
      [marker |-> TRUE,  id |-> Some("T2"), name |-> Some("Other Trial"), contact |-> None],
      [marker |-> TRUE,  id |-> Some("T1"), name |-> None,                contact |-> None],
      [marker |-> TRUE,  id |-> None,       name |-> Some("No Id Trial"), contact |-> None],
      [marker |-> FALSE, id |-> Some("T9"), name |-> Some("Lower Trial"), contact |-> None] }

TrialFiles == SeqsUpTo(TrialBlocks, MaxStudies)

HasTrialId(b) == b.marker /\ b.id # None

\* ClinicalTrialMatcher._parse_trials (static variant): the blocks that
\* carry a trial id, in file order; a key is present in the trial dict only
\* when its pattern matched.
_parse_trials(trials_text) ==
    LET kept == SelectSeq(trials_text, HasTrialId)
    IN  [k \in 1..Len(kept) |->
            [trial_id     |-> kept[k].id[1],
             trial_name   |-> kept[k].name,
             contact_info |-> kept[k].contact,
             full_text    |-> <<"BLOCK">>]]

\* ------------------------------------------------------------ evaluator
RequiredKeys ==
    { "match_status", "confidence_score", "inclusion_criteria_met",
      "inclusion_criteria_not_met", "exclusion_criteria_violated", "reasoning" }

\* A JSON value given for confidence_score, as a percentage: a number, a
\* numeric string, a non-numeric string or null.
JScore(t, pct) == [t |-> t, pct |-> pct]

\* The float that is not a number: json.loads gives it for the token NaN
\* and float() for the string "nan".  It stands outside the percentages.
NaN == -1

\* float(x): the value for a number or a numeric string, NaN for the NaN
\* token, else an exception.
Float(x) ==
    IF x.t \in {"num", "numstr"} THEN Some(x.pct)
    ELSE IF x.t = "nan" THEN Some(NaN)
    ELSE None

\* reasoning is kept as the pieces that '. ' separates.
Verdict(keys, status, score, met, not_met, violated) ==
    [keys |-> keys, match_status |-> status, confidence_score |-> score,
     inclusion_criteria_met |-> met, inclusion_criteria_not_met |-> not_met,
     exclusion_criteria_violated |-> violated,
     reasoning |-> <<"Main condition matches", "", "Stage fits">>]

\* Keys of a verdict that have the names of TrialMatch fields the
\* evaluator fills from the trial dict, and the values an answer gives
\* them.
IdentityKeys == { "trial_id", "trial_name", "contact_info" }

OracleIdentity ==
    [trial_id |-> "NCT99999999", trial_name |-> "Oracle Trial",
     contact_info |-> "oracle@example.org"]

\* The JSON objects the oracle may answer with; one of them carries the
\* identity keys besides the required ones.
VerdictObjects ==
    { Verdict(RequiredKeys, "QUALIFIED",       JScore("num", 80),    <<"diagnosis">>, <<>>, <<>>),
      Verdict(RequiredKeys, "NOT_QUALIFIED",   JScore("num", 40),    <<>>, <<"stage">>, <<"prior therapy">>),
      Verdict(RequiredKeys, "NOT_QUALIFIED",   JScore("numstr", 40), <<>>, <<"stage">>, <<"prior therapy">>),
      Verdict(RequiredKeys, "NEEDS_MORE_INFO", JScore("num", 80),    <<>>, <<>>, <<>>),
      Verdict(RequiredKeys \cup IdentityKeys, "QUALIFIED", JScore("num", 80), <<"diagnosis">>, <<>>, <<>>),
      Verdict(RequiredKeys, "MAYBE",           JScore("num", 150),   <<>>, <<>>, <<>>),
      Verdict(RequiredKeys, "QUALIFIED",       JScore("str", 0),     <<"diagnosis">>, <<>>, <<>>),
      Verdict(RequiredKeys, "QUALIFIED",       JScore("null", 0),    <<"diagnosis">>, <<>>, <<>>),
      Verdict(RequiredKeys \ {"reasoning"},        "QUALIFIED", JScore("num", 80), <<"diagnosis">>, <<>>, <<>>),
      Verdict(RequiredKeys \ {"confidence_score"}, "QUALIFIED", JScore("num", 80), <<"diagnosis">>, <<>>, <<>>) }

\* What the oracle answers to the evaluation prompt.  api_ok: the call
\* returned; fence: the object text captured by the ```json fence pattern,
\* if the pattern matches; brace: the text from the first "{" to the last
\* "}", if any; first: the first brace-delimited object of the text, from
\* the first "{" to the "}" that closes it, if any.  Each text either
\* decodes (valid) to obj or does not.  brace and first are the same text
\* unless a "}" follows the first object.
JsonText(valid, obj) == [valid |-> valid, obj |-> obj]

AnyVerdict == CHOOSE v \in VerdictObjects : TRUE

GoodVerdict == Verdict(RequiredKeys, "QUALIFIED", JScore("num", 80), <<"diagnosis">>, <<>>, <<>>)

EvalResponses ==
    { [api_ok |-> FALSE, fence |-> None, brace |-> None, first |-> None],
      [api_ok |-> TRUE,  fence |-> None, brace |-> None, first |-> None],
      [api_ok |-> TRUE,  fence |-> None, brace |-> Some(JsonText(FALSE, AnyVerdict)),
                         first |-> Some(JsonText(FALSE, AnyVerdict))],
      [api_ok |-> TRUE,  fence |-> None, brace |-> Some(JsonText(FALSE, GoodVerdict)),
                         first |-> Some(JsonText(TRUE, GoodVerdict))],
      [api_ok |-> TRUE,  fence |-> Some(JsonText(FALSE, AnyVerdict)),
                         brace |-> Some(JsonText(FALSE, AnyVerdict)),
                         first |-> Some(JsonText(FALSE, AnyVerdict))] }
    \cup { [api_ok |-> TRUE, fence |-> None, brace |-> Some(JsonText(TRUE, v)),
            first |-> Some(JsonText(TRUE, v))] : v \in VerdictObjects }
    \cup { [api_ok |-> TRUE, fence |-> Some(JsonText(TRUE, v)),
            brace |-> Some(JsonText(FALSE, AnyVerdict)),
            first |-> Some(JsonText(TRUE, v))] : v \in VerdictObjects }

DefaultContact == "Contact information not available"

\* Variant that reads the verdict with defaults instead of requiring
\* every key.
_evaluate_single_trial_defaults(trial, cand, resp) ==
    LET json_str   == IF resp.fence # None THEN resp.fence ELSE resp.brace
        evaluation == json_str[1].obj
    IN  IF ~resp.api_ok THEN None
        ELSE IF json_str = None THEN None
        ELSE IF ~json_str[1].valid THEN None
        ELSE IF trial.trial_name = None THEN None
        ELSE IF Float(evaluation.confidence_score) = None THEN None
        ELSE Some([trial_id         |-> trial.trial_id,
                   trial_name       |-> trial.trial_name[1],
                   match_status     |-> evaluation.match_status,
                   confidence_score |-> Float(evaluation.confidence_score)[1],
                   inclusion_criteria_met      |-> evaluation.inclusion_criteria_met,
                   inclusion_criteria_not_met  |-> evaluation.inclusion_criteria_not_met,
                   exclusion_criteria_violated |-> evaluation.exclusion_criteria_violated,
                   reasoning        |-> evaluation.reasoning,
                   contact_info     |-> IF trial.contact_info # None
                                        THEN trial.contact_info[1] ELSE DefaultContact,
                   cand             |-> cand])

\* Variant in which the keys of the verdict override the fields taken
\* from the trial dict.
_evaluate_single_trial_verdict_first(trial, cand, resp) ==
    LET json_str   == IF resp.fence # None THEN resp.fence ELSE resp.brace
        evaluation == json_str[1].obj
        named      == IdentityKeys \subseteq evaluation.keys
    IN  IF ~resp.api_ok THEN None
        ELSE IF json_str = None THEN None
        ELSE IF ~json_str[1].valid THEN None
        ELSE IF trial.trial_name = None THEN None
        ELSE IF ~(RequiredKeys \subseteq evaluation.keys) THEN None
        ELSE IF Float(evaluation.confidence_score) = None THEN None
        ELSE Some([trial_id         |-> IF named THEN OracleIdentity.trial_id
                                        ELSE trial.trial_id,
                   trial_name       |-> IF named THEN OracleIdentity.trial_name
                                        ELSE trial.trial_name[1],
                   match_status     |-> evaluation.match_status,
                   confidence_score |-> Float(evaluation.confidence_score)[1],
                   inclusion_criteria_met      |-> evaluation.inclusion_criteria_met,
                   inclusion_criteria_not_met  |-> evaluation.inclusion_criteria_not_met,
                   exclusion_criteria_violated |-> evaluation.exclusion_criteria_violated,
                   reasoning        |-> evaluation.reasoning,
                   contact_info     |-> IF named THEN OracleIdentity.contact_info
                                        ELSE IF trial.contact_info # None
                                        THEN trial.contact_info[1] ELSE DefaultContact,
                   cand             |-> cand])

\* ClinicalTrialMatcher._evaluate_single_trial (both variants): one oracle
\* call; the fenced object is preferred to the brace-delimited text; any
\* exception (the call, no JSON found, json.loads, a missing key of the
\* verdict or of the trial dict, float()) is caught and gives None.  The
\* TrialMatch model declares match_status: str and confidence_score: float
\* with no further validation.  cand is bookkeeping: the position of the
\* candidate in retrieval order.
_evaluate_single_trial(trial, cand, resp) ==
    LET json_str   == IF resp.fence # None THEN resp.fence ELSE resp.brace
        evaluation == json_str[1].obj
    IN  IF ~resp.api_ok THEN None
        ELSE IF json_str = None THEN None
        ELSE IF ~json_str[1].valid THEN None
        ELSE IF trial.trial_name = None THEN None
        ELSE IF ~(RequiredKeys \subseteq evaluation.keys) THEN None
        ELSE IF Float(evaluation.confidence_score) = None THEN None
        ELSE Some([trial_id         |-> trial.trial_id,
                   trial_name       |-> trial.trial_name[1],
                   match_status     |-> evaluation.match_status,
                   confidence_score |-> Float(evaluation.confidence_score)[1],
                   inclusion_criteria_met      |-> evaluation.inclusion_criteria_met,
                   inclusion_criteria_not_met  |-> evaluation.inclusion_criteria_not_met,
                   exclusion_criteria_violated |-> evaluation.exclusion_criteria_violated,
                   reasoning        |-> evaluation.reasoning,
                   contact_info     |-> IF trial.contact_info # None
                                        THEN trial.contact_info[1] ELSE DefaultContact,
                   cand             |-> cand])

\* ----------------------------------------------------------------- sort
\* x < y on floats: false when either side is NaN.
Lt(x, y) == x # NaN /\ y # NaN /\ x < y

Reverse(s) == [k \in 1..Len(s) |-> s[Len(s) + 1 - k]]

\* list.sort(key=confidence_score, reverse=True) as the interpreter runs
\* it on a short list: reverse the list, sort it ascending with a stable
\* sort that compares keys with < only (take the run the list starts
\* with, reversed if it descends strictly, then place each later element
\* by binary search), and reverse the result.
RECURSIVE InsertionPoint(_, _, _, _)
InsertionPoint(sorted, key, l, r) ==
    IF l >= r THEN l
    ELSE LET p == l + ((r - l) \div 2)
         IN  IF Lt(key, sorted[p + 1].confidence_score)
             THEN InsertionPoint(sorted, key, l, p)
             ELSE InsertionPoint(sorted, key, p + 1, r)

InsertByConfidence(sorted, m) ==
    LET at == InsertionPoint(sorted, m.confidence_score, 0, Len(sorted))
    IN  SubSeq(sorted, 1, at) \o <<m>> \o SubSeq(sorted, at + 1, Len(sorted))

RECURSIVE InsertAll(_, _, _)
InsertAll(sorted, a, k) ==
    IF k > Len(a) THEN sorted
    ELSE InsertAll(InsertByConfidence(sorted, a[k]), a, k + 1)

RECURSIVE RunEnd(_, _, _)
RunEnd(a, k, descending) ==
    IF k >= Len(a) THEN k
    ELSE IF Lt(a[k + 1].confidence_score, a[k].confidence_score) = descending
         THEN RunEnd(a, k + 1, descending)
         ELSE k

SortAscending(a) ==
    IF Len(a) < 2 THEN a
    ELSE LET descending == Lt(a[2].confidence_score, a[1].confidence_score)
             n   == RunEnd(a, 2, descending)
             run == SubSeq(a, 1, n)
         IN  InsertAll(IF descending THEN Reverse(run) ELSE run, a, n + 1)

\* Variant that does not reverse the list before sorting it.
SortByConfidenceUnstable(ms) == Reverse(SortAscending(ms))

SortByConfidence(ms) == Reverse(SortAscending(Reverse(ms)))

\* The tail of match_patient_to_trials: sort, then matches[:max].
TopMatches(ms, max_trials_to_return) ==
    PySlice(SortByConfidence(ms), max_trials_to_return)

\* --------------------------------------------------------------- report
Line(k, n, text) == [k |-> k, n |-> n, text |-> text]

NoTrialsReport ==
    <<Line("text", 0, "No clinical trials found matching the patient's profile.")>>

CountStatus(matches, status) ==
    Cardinality({k \in 1..Len(matches) : matches[k].match_status = status})

\* Variant that writes the section heading for an empty list too.
SectionAlways(title, criteria) ==
    <<Line(title, Len(criteria), "")>>
    \o [k \in 1..Len(criteria) |-> Line("bullet", 0, criteria[k])]

\* A criteria section: present only for a non-empty list.
Section(title, criteria) ==
    IF criteria = <<>> THEN <<>>
    ELSE <<Line(title, Len(criteria), "")>>
         \o [k \in 1..Len(criteria) |-> Line("bullet", 0, criteria[k])]

IsNonEmpty(piece) == piece # ""

\* reasoning.split('. ') with the empty pieces skipped.
ReasoningLines(reasoning) ==
    LET kept == SelectSeq(reasoning, IsNonEmpty)
    IN  [k \in 1..Len(kept) |-> Line("reasoning", 0, kept[k])]

MatchBlock(n, m) ==
    <<Line("rule", 0, ""),
      Line("name", n, m.trial_name),
      Line("Trial ID", 0, m.trial_id),
      Line("Status", 0, m.match_status),
      Line("Confidence", m.confidence_score, ""),
      Line("Contact", 0, m.contact_info)>>
    \o Section("Inclusion Criteria Met", m.inclusion_criteria_met)
    \o Section("Inclusion Criteria Not Met", m.inclusion_criteria_not_met)
    \o Section("Exclusion Criteria Violated", m.exclusion_criteria_violated)
    \o <<Line("Reasoning", 0, "")>>
    \o ReasoningLines(m.reasoning)
    \o <<Line("text", 0, "")>>

RECURSIVE MatchBlocks(_, _)
MatchBlocks(matches, n) ==
    IF n > Len(matches) THEN <<>>
    ELSE MatchBlock(n, matches[n]) \o MatchBlocks(matches, n + 1)

\* Variant without the special case for an empty list.
generate_report_always_banner(matches) ==
    <<Line("banner", 0, "CLINICAL TRIAL MATCHING REPORT"),
      Line("Total Trials Evaluated", Len(matches), ""),
      Line("Qualified", CountStatus(matches, "QUALIFIED"), ""),
      Line("Not Qualified", CountStatus(matches, "NOT_QUALIFIED"), ""),
      Line("Needs More Information", CountStatus(matches, "NEEDS_MORE_INFO"), ""),
      Line("text", 0, "")>>
    \o MatchBlocks(matches, 1)
    \o <<Line("banner", 0, "END OF REPORT")>>

\* ClinicalTrialMatcher.generate_report, as the list of lines it joins.
generate_report(matches) ==
    IF matches = <<>> THEN NoTrialsReport
    ELSE <<Line("banner", 0, "CLINICAL TRIAL MATCHING REPORT"),
           Line("Total Trials Evaluated", Len(matches), ""),
           Line("Qualified", CountStatus(matches, "QUALIFIED"), ""),
           Line("Not Qualified", CountStatus(matches, "NOT_QUALIFIED"), ""),
           Line("Needs More Information", CountStatus(matches, "NEEDS_MORE_INFO"), ""),
           Line("text", 0, "")>>
         \o MatchBlocks(matches, 1)
         \o <<Line("banner", 0, "END OF REPORT")>>

\* ---------------------------------------------------------------- state
VARIABLES
    mode,             \* which entry point runs: "remote", "static", "stream"
    api_key,          \* whether ANTHROPIC_API_KEY is configured
    max_trials,       \* the max_trials of the request / the max_trials_to_return argument
    progress_callback, \* whether the caller passed a progress callback
    pc,               \* position of the run
    trials_database,  \* static matcher: the blocks of the loaded trials file
    trials,           \* static matcher: the parsed trial dicts
    conditions,       \* the search conditions (after any fallback)
    trial_ids,        \* the candidate ids the search returned
    i,                \* 1-based position of the candidate being processed
    trial,            \* the trial dict fetched for candidate i, if any
    matches,          \* the accumulator (matches / all_matches)
    result,           \* the list returned, or carried by the completion event
    report,           \* the report rendered last
    events,           \* stream: the types of the events yielded so far
    closed,           \* stream: the consumer has closed the generator
    outcome,          \* "running", "returned", "raised" (an exception reached the caller), "closed"
    error,            \* what raised: "", "config", "deidentify", "sink", "conditions", "search", "detail"
    log,              \* bookkeeping: the calls made to the collaborators
    no_sink_matches,  \* bookkeeping: the accumulator the same responses give a run without callback
    runs              \* concurrent runs: the frame of each match_patient_to_trials call in progress

vars == <<mode, api_key, max_trials, progress_callback, pc, trials_database, trials,
          conditions, trial_ids, i, trial, matches, result, report, events, closed,
          outcome, error, log, no_sink_matches, runs>>

Modes == {"remote", "static", "stream"}

\* The max_trials values a caller may send; the request model declares
\* Optional[int] with no validation, and 0 stands for an omitted value too.
MaxTrialsDomain == (-1)..MaxResults

\* app.py match_trials: `request.max_trials or 10`; a direct call passes the
\* argument through.
MaxTrialsToReturn ==
    IF mode = "remote"
    THEN (IF max_trials = 0 THEN DefaultMaxTrials ELSE max_trials)
    ELSE max_trials

NumCandidates == IF mode = "static" THEN Len(trials) ELSE Len(trial_ids)

EmptyLogs(n) == [k \in 1..n |-> <<>>]

\* No caller in the repository passes a progress callback: neither
\* endpoint of app.py, nor main(), nor the demo scripts.
Init ==
    /\ mode \in Modes
    /\ api_key \in BOOLEAN
    /\ max_trials \in (IF mode = "stream" THEN {0} ELSE MaxTrialsDomain)
    /\ progress_callback = FALSE
    /\ pc = (IF mode = "stream" THEN "deidentify" ELSE "construct")
    /\ trials_database = <<>>
    /\ trials = <<>>
    /\ conditions = <<>>
    /\ trial_ids = <<>>
    /\ i = 0
    /\ trial = None
    /\ matches = <<>>
    /\ result = None
    /\ report = None
    /\ events = <<>>
    /\ closed = FALSE
    /\ outcome = "running"
    /\ error = ""
    /\ log = [deidentify |-> 0, extract |-> <<>>, search |-> <<>>,
              fetch_calls |-> 0, eval_calls |-> 0, fetch |-> <<>>, evaluate |-> <<>>,
              fetch_failed |-> <<>>, verdict |-> <<>>]
    /\ no_sink_matches = <<>>
    /\ runs = <<>>

\* What one invocation of the progress callback may do: nothing is invoked
\* when none was passed; a callback that was passed returns or raises.
SinkRaises == IF progress_callback THEN BOOLEAN ELSE {FALSE}

\* Variant in which the generator goes on after the consumer closed it.
ResumesAlways == TRUE
\* generate() is suspended at each `yield` / `await`; once the consumer has
\* closed it, it is not resumed (GeneratorExit / CancelledError is no
\* Exception, so `except Exception` does not catch it).
Resumes == ~closed

\* Variant in which the stream ends on an exception without a last event.
RaiseSilently(cause, evs) ==
    /\ pc' = "done"
    /\ outcome' = "raised"
    /\ error' = cause
    /\ events' = evs

\* The run ends with an exception reaching the caller: HTTP 500 from
\* /match_trials, an exception from a direct call, an error event from the
\* stream's `except Exception`.
Raise(cause, evs) ==
    /\ pc' = "done"
    /\ outcome' = "raised"
    /\ error' = cause
    /\ events' = IF mode = "stream" THEN evs \o <<"error">> ELSE events

\* generate(): the first status event, then `await deidentify(request)`.
Deidentify ==
    /\ pc = "deidentify"
    /\ Resumes
    /\ log' = [log EXCEPT !.deidentify = @ + 1]
    /\ \E ok \in BOOLEAN :
         IF ok
         THEN /\ pc' = "construct"
              /\ events' = events \o <<"status", "status">>
              /\ UNCHANGED <<outcome, error>>
         ELSE Raise("deidentify", events \o <<"status">>)
    /\ UNCHANGED <<runs, mode, api_key, max_trials, progress_callback, trials_database,
                   trials, conditions, trial_ids, i, trial, matches, result, report,
                   closed, no_sink_matches>>

\* ClinicalTrialMatcher.__init__ (and the key check of match_trials before
\* it): a missing key is the configuration error; the static matcher also
\* loads its trials file.
Construct ==
    /\ pc = "construct"
    /\ Resumes
    /\ IF ~api_key
       THEN /\ Raise("config", events)
            /\ UNCHANGED trials_database
       ELSE /\ pc' = (IF mode = "static" THEN "parse" ELSE "extract")
            /\ IF mode = "static"
               THEN \E db \in TrialFiles : trials_database' = db
               ELSE UNCHANGED trials_database
            /\ UNCHANGED <<events, outcome, error>>
    /\ UNCHANGED <<runs, mode, api_key, max_trials, progress_callback, trials, conditions,
                   trial_ids, i, trial, matches, result, report, closed, log,
                   no_sink_matches>>

\* Static match_patient_to_trials, up to the loop: parse the file.
ParseTrials ==
    /\ pc = "parse"
    /\ trials' = _parse_trials(trials_database)
    /\ i' = 1
    /\ pc' = "loop"
    /\ log' = [log EXCEPT !.fetch = EmptyLogs(Len(trials')),
                          !.evaluate = EmptyLogs(Len(trials')),
                          !.fetch_failed = EmptyLogs(Len(trials')),
                          !.verdict = EmptyLogs(Len(trials'))]
    /\ UNCHANGED <<runs, mode, api_key, max_trials, progress_callback, trials_database,
                   conditions, trial_ids, trial, matches, result, report, events,
                   closed, outcome, error, no_sink_matches>>

\* Step 1.  Remote match_patient_to_trials: invoke the callback (outside
\* any try), extract, substitute the fallback for an empty list, otherwise
\* print the joined conditions.  Stream: status event, extract, build
\* cond_msg by joining, thinking event.
ExtractConditions ==
    /\ pc = "extract"
    /\ Resumes
    /\ \E sink_raises \in SinkRaises :
         IF sink_raises
         THEN /\ Raise("sink", events)
              /\ UNCHANGED <<conditions, log>>
         ELSE \E resp \in ExtractResponses :
                LET extracted == _extract_conditions_from_patient_data(resp)
                IN  /\ log' = [log EXCEPT !.extract = Append(@, extracted)]
                    /\ conditions' = (IF mode = "remote" /\ extracted = <<>>
                                      THEN FallbackConditions ELSE extracted)
                    /\ IF JoinRaises(extracted)
                       THEN Raise("conditions", events \o <<"status">>)
                       ELSE /\ pc' = "search"
                            /\ events' = (IF mode = "stream"
                                          THEN events \o <<"status", "thinking">>
                                          ELSE events)
                            /\ UNCHANGED <<outcome, error>>
    /\ UNCHANGED <<runs, mode, api_key, max_trials, progress_callback, trials_database,
                   trials, trial_ids, i, trial, matches, result, report, closed,
                   no_sink_matches>>

\* Whether the exchange is one of the transport's failure modes.
IsTransportFailure(resp) ==
    \/ resp.net # "ok"
    \/ resp.status # 200
    \/ ~resp.sse
    \/ resp.outer # "ok"
    \/ resp.inner # "ok"

\* Step 2.  Remote: invoke the callback (outside any try), search with
\* max_studies = 2 * max_trials_to_return and return [] at once when no id
\* came back (the endpoint then renders the report).  Stream: status event,
\* search with max_studies = 20, thinking event, and on into the loop.
SearchTrials ==
    /\ pc = "search"
    /\ Resumes
    /\ \E sink_raises \in SinkRaises :
         IF sink_raises
         THEN /\ Raise("sink", events)
              /\ UNCHANGED <<trial_ids, i, result, report, log>>
         ELSE \E resp \in ListStudiesResponses :
         LET max_studies == IF mode = "stream" THEN StreamMaxStudies
                            ELSE MaxTrialsToReturn * 2
             r == _search_trials_via_mcp(conditions, max_studies, resp)
         IN
             /\ log' = [log EXCEPT
                          !.search = Append(@, [conditions |-> conditions,
                                                max_studies |-> max_studies,
                                                failed |-> IsTransportFailure(resp),
                                                returned |-> IF r.raised THEN "raised"
                                                             ELSE IF r.ids = <<>> THEN "empty"
                                                             ELSE "ids"]),
                          !.fetch = EmptyLogs(Len(r.ids)),
                          !.evaluate = EmptyLogs(Len(r.ids)),
                          !.fetch_failed = EmptyLogs(Len(r.ids)),
                          !.verdict = EmptyLogs(Len(r.ids))]
             /\ IF r.raised
                THEN /\ Raise("search", events \o <<"status">>)
                     /\ UNCHANGED <<trial_ids, i, result, report>>
                ELSE /\ trial_ids' = r.ids
                     /\ IF mode = "remote" /\ r.ids = <<>>
                        THEN /\ pc' = "done"
                             /\ outcome' = "returned"
                             /\ result' = Some(<<>>)
                             /\ report' = Some(generate_report(<<>>))
                             /\ UNCHANGED <<i, events, error>>
                        ELSE /\ pc' = "loop"
                             /\ i' = 1
                             /\ events' = (IF mode = "stream"
                                           THEN events \o <<"status", "thinking">>
                                           ELSE events)
                             /\ UNCHANGED <<outcome, error, result, report>>
    /\ UNCHANGED <<runs, mode, api_key, max_trials, progress_callback, trials_database,
                   trials, conditions, trial, matches, closed, no_sink_matches>>

\* Variant with `break` in place of `continue`.
BreakAfterAbsent(k) == NumCandidates + 1
\* Variant that fetches the same candidate again after an absent result.
RetryAfterAbsent(k) == k
\* Variant that goes back to the previous candidate after an absent result.
RevisitAfterAbsent(k) == IF k > 1 THEN k - 1 ELSE k + 1
\* `if not trial: continue`: on to the next candidate.
ContinueAfterAbsent(k) == k + 1

\* Variant that rolls the accumulator back when an evaluation gives None.
AccumulateOrReset(acc, match_result) ==
    IF match_result = None THEN <<>> ELSE Append(acc, match_result[1])
\* `if match_result: matches.append(match_result)`; nothing else touches
\* the accumulator inside the loop.
Accumulate(acc, match_result) ==
    IF match_result = None THEN acc ELSE Append(acc, match_result[1])

\* Loop body, first half: fetch the details of candidate i.  Remote: the
\* body is inside try/except Exception and starts by invoking the callback,
\* so an exception (of the callback, of the fetch) or None moves on to the
\* next candidate; "sink" in the log marks a candidate whose iteration the
\* callback ended before the fetch.  Stream: thinking event (header), fetch
\* with no try around it, `continue` on None, thinking event (study name).
FetchTrial ==
    /\ pc = "loop"
    /\ Resumes
    /\ mode # "static"
    /\ i <= Len(trial_ids)
    /\ \E sink_raises \in SinkRaises :
         IF sink_raises
         THEN /\ log' = [log EXCEPT !.fetch[i] = Append(@, "sink")]
              /\ i' = i + 1
              /\ no_sink_matches' \in
                   { LET r == _get_trial_details_via_mcp(trial_ids[i], resp)
                     IN  IF r.raised \/ r.trial = None THEN no_sink_matches
                         ELSE Accumulate(no_sink_matches,
                                         _evaluate_single_trial(r.trial[1], i, eresp)) :
                       resp \in GetStudyResponses, eresp \in EvalResponses }
              /\ UNCHANGED <<pc, trial, events, outcome, error>>
         ELSE
         /\ \E resp \in GetStudyResponses :
              LET r == _get_trial_details_via_mcp(trial_ids[i], resp)
                  what == IF r.raised THEN "raised"
                          ELSE IF r.trial = None THEN "absent" ELSE "detail"
              IN  /\ log' = [log EXCEPT !.fetch_calls = @ + 1,
                                        !.fetch[i] = Append(@, what),
                                        !.fetch_failed[i] =
                                            Append(@, IsTransportFailure(resp))]
                  /\ IF r.raised /\ mode = "stream"
                     THEN /\ Raise("detail", events \o <<"thinking">>)
                          /\ UNCHANGED <<i, trial>>
                     ELSE IF r.raised
                     THEN /\ i' = i + 1
                          /\ events' = events
                          /\ UNCHANGED <<pc, trial, outcome, error>>
                     ELSE IF r.trial = None
                     THEN /\ i' = ContinueAfterAbsent(i)
                          /\ events' = (IF mode = "stream"
                                        THEN events \o <<"thinking">> ELSE events)
                          /\ UNCHANGED <<pc, trial, outcome, error>>
                     ELSE /\ trial' = r.trial
                          /\ pc' = "evaluate"
                          /\ events' = (IF mode = "stream"
                                        THEN events \o <<"thinking", "thinking">>
                                        ELSE events)
                          /\ UNCHANGED <<i, outcome, error>>
         /\ UNCHANGED no_sink_matches
    /\ UNCHANGED <<runs, mode, api_key, max_trials, progress_callback, trials_database,
                   trials, conditions, trial_ids, matches, result, report, closed>>

\* Whether a decoded object is a verdict the evaluator can use: every
\* required key is present and the score is a number.
IsUsableVerdict(obj) ==
    RequiredKeys \subseteq obj.keys /\ Float(obj.confidence_score) # None

\* How an evaluation answer is classed in the log: "well_formed" when the
\* text the evaluator decodes is a usable verdict; "first_object" when it
\* is not, no fence matched, and the first brace-delimited object of the
\* answer is a usable verdict; "malformed" otherwise (the call failed, no
\* JSON object decodes, a required key is missing or the score is no
\* number).
EvalClass(resp) ==
    LET json_str == IF resp.fence # None THEN resp.fence ELSE resp.brace
    IN  IF ~resp.api_ok THEN "malformed"
        ELSE IF json_str # None /\ json_str[1].valid
             THEN IF IsUsableVerdict(json_str[1].obj) THEN "well_formed" ELSE "malformed"
        ELSE IF resp.fence = None /\ resp.first # None /\ resp.first[1].valid
                /\ IsUsableVerdict(resp.first[1].obj)
             THEN "first_object"
        ELSE "malformed"

\* The confidence the answer's verdict states, if the answer is well formed.
VerdictScore(resp) ==
    LET json_str == IF resp.fence # None THEN resp.fence ELSE resp.brace
    IN  IF EvalClass(resp) = "well_formed"
        THEN Float(json_str[1].obj.confidence_score) ELSE None

\* Loop body, second half: evaluate the trial and append the match, if
\* any.  Static: the body is inside try/except Exception and starts by
\* invoking the callback; "sink" in the log marks a trial whose iteration
\* the callback ended before the evaluation.  Stream: two more thinking
\* events for a match.
EvaluateTrial ==
    /\ \/ mode = "static" /\ pc = "loop" /\ i <= Len(trials)
       \/ mode # "static" /\ pc = "evaluate"
    /\ Resumes
    /\ \E sink_raises \in (IF mode = "static" THEN SinkRaises ELSE {FALSE}),
          resp \in EvalResponses :
         LET t == IF mode = "static" THEN trials[i] ELSE trial[1]
             match_result == _evaluate_single_trial(t, i, resp)
         IN  /\ no_sink_matches' = Accumulate(no_sink_matches, match_result)
             /\ IF sink_raises
                THEN /\ log' = [log EXCEPT !.evaluate[i] = Append(@, "sink")]
                     /\ UNCHANGED <<matches, events>>
                ELSE /\ log' = [log EXCEPT !.eval_calls = @ + 1,
                                           !.evaluate[i] = Append(@, EvalClass(resp)),
                                           !.verdict[i] = Append(@, VerdictScore(resp))]
                     /\ matches' = Accumulate(matches, match_result)
                     /\ events' = (IF mode = "stream" /\ match_result # None
                                   THEN events \o <<"thinking", "thinking">>
                                   ELSE events)
    /\ i' = i + 1
    /\ pc' = "loop"
    /\ trial' = None
    /\ UNCHANGED <<runs, mode, api_key, max_trials, progress_callback, trials_database,
                   trials, conditions, trial_ids, result, report, closed, outcome,
                   error>>

\* After the loop.  Matchers: sort the accumulator in place and return its
\* first max_trials_to_return elements; /match_trials then renders the
\* report.  Stream: render the report of all_matches as accumulated and
\* yield the completion event.
Finish ==
    /\ pc = "loop"
    /\ Resumes
    /\ i > NumCandidates
    /\ IF mode = "stream"
       THEN /\ result' = Some(matches)
            /\ report' = Some(generate_report(matches))
            /\ events' = events \o <<"complete">>
            /\ UNCHANGED matches
       ELSE /\ matches' = SortByConfidence(matches)
            /\ result' = Some(TopMatches(matches, MaxTrialsToReturn))
            /\ report' = (IF mode = "remote"
                          THEN Some(generate_report(TopMatches(matches, MaxTrialsToReturn)))
                          ELSE report)
            /\ UNCHANGED events
    /\ pc' = "done"
    /\ outcome' = "returned"
    /\ UNCHANGED <<runs, mode, api_key, max_trials, progress_callback, trials_database,
                   trials, conditions, trial_ids, i, trial, closed, error, log,
                   no_sink_matches>>

\* Variant whose rendering consumes the list it is given.
GenerateReportInPlace ==
    /\ pc = "done"
    /\ mode \in {"remote", "static"}
    /\ outcome = "returned"
    /\ report' = Some(generate_report(result[1]))
    /\ result' = Some(<<>>)
    /\ UNCHANGED <<runs, mode, api_key, max_trials, progress_callback, pc, trials_database,
                   trials, conditions, trial_ids, i, trial, matches, events,
                   closed, outcome, error, log, no_sink_matches>>
\* The caller of a matcher renders the list it got back, as main() does
\* after match_patient_to_trials, any number of times.
GenerateReport ==
    /\ pc = "done"
    /\ mode \in {"remote", "static"}
    /\ outcome = "returned"
    /\ report' = Some(generate_report(result[1]))
    /\ UNCHANGED <<runs, mode, api_key, max_trials, progress_callback, pc, trials_database,
                   trials, conditions, trial_ids, i, trial, matches, result, events,
                   closed, outcome, error, log, no_sink_matches>>

\* The consumer of the stream closes it (the client disconnects) while the
\* generator has not finished.
CloseStream ==
    /\ mode = "stream"
    /\ pc # "done"
    /\ ~closed
    /\ closed' = TRUE
    /\ UNCHANGED <<runs, mode, api_key, max_trials, progress_callback, pc, trials_database,
                   trials, conditions, trial_ids, i, trial, matches, result, report,
                   events, outcome, error, log, no_sink_matches>>

\* The closed generator ends at the yield / await where it is suspended.
StreamClosed ==
    /\ mode = "stream"
    /\ pc # "done"
    /\ closed
    /\ pc' = "done"
    /\ outcome' = "closed"
    /\ UNCHANGED <<runs, mode, api_key, max_trials, progress_callback, trials_database,
                   trials, conditions, trial_ids, i, trial, matches, result, report,
                   events, closed, error, log, no_sink_matches>>

Next ==
    \/ Deidentify
    \/ Construct
    \/ ParseTrials
    \/ ExtractConditions
    \/ SearchTrials
    \/ FetchTrial
    \/ EvaluateTrial
    \/ Finish
    \/ GenerateReport
    \/ CloseStream
    \/ StreamClosed

Spec == Init /\ [][Next]_vars

\* A direct caller of match_patient_to_trials (either matcher) that passes
\* a progress callback; each invocation of the callback returns or raises.
InitSink ==
    /\ mode \in {"remote", "static"}
    /\ api_key = TRUE
    /\ max_trials \in 1..MaxResults
    /\ progress_callback = TRUE
    /\ pc = "construct"
    /\ trials_database = <<>>
    /\ trials = <<>>
    /\ conditions = <<>>
    /\ trial_ids = <<>>
    /\ i = 0
    /\ trial = None
    /\ matches = <<>>
    /\ result = None
    /\ report = None
    /\ events = <<>>
    /\ closed = FALSE
    /\ outcome = "running"
    /\ error = ""
    /\ log = [deidentify |-> 0, extract |-> <<>>, search |-> <<>>,
              fetch_calls |-> 0, eval_calls |-> 0, fetch |-> <<>>, evaluate |-> <<>>,
              fetch_failed |-> <<>>, verdict |-> <<>>]
    /\ no_sink_matches = <<>>
    /\ runs = <<>>

NextSink ==
    \/ Construct
    \/ ParseTrials
    \/ ExtractConditions
    \/ SearchTrials
    \/ FetchTrial
    \/ EvaluateTrial
    \/ Finish

SpecSink == InitSink /\ [][NextSink]_vars

\* ------------------------------------------------------ concurrent runs
\* Two calls of the remote match_patient_to_trials in progress at once,
\* each on a matcher instance of its own (/match_trials constructs one per
\* request).  A run owns its frame: the arguments and the local variables
\* of the call.  Two fields of a frame are bookkeeping: heard, the
\* responses the run has received, and overlap, whether the run has made a
\* collaborator call while another run was between its first call and its
\* return.
Runs == {1, 2}

MainVars ==
    <<mode, api_key, max_trials, progress_callback, pc, trials_database, trials,
      conditions, trial_ids, i, trial, matches, result, report, events, closed,
      outcome, error, log, no_sink_matches>>

NewFrame(max_trials_to_return) ==
    [pc |-> "extract", max_trials_to_return |-> max_trials_to_return,
     conditions |-> <<>>, trial_ids |-> <<>>, i |-> 0, trial |-> None,
     matches |-> <<>>, result |-> None, overlap |-> FALSE,
     heard |-> [extract |-> None, search |-> None, fetch |-> <<>>, evaluate |-> <<>>]]

\* The answers drawn for concurrent runs: an extraction of no or one
\* condition; a search result of identified studies; a fetch that times
\* out or gives a full study; an evaluation that fails or gives a verdict
\* with every key and a numeric score.
ConcurrentExtractResponses ==
    { resp \in ExtractResponses :
        /\ resp.api_ok
        /\ resp.bracket # None
        /\ resp.bracket[1].valid
        /\ resp.bracket[1].items \in {<<>>, <<JStr("breast cancer")>>} }

AlternatingStudies(n) ==
    [k \in 1..n |-> [kind |-> "study", nctId |-> IF k % 2 = 1 THEN "NCT1" ELSE "NCT2"]]

ConcurrentSearchResponses ==
    { resp \in ListStudiesResponses :
        /\ resp = McpOk(resp.data)
        /\ resp.data.studies_t = "list"
        /\ resp.data.studies = AlternatingStudies(Len(resp.data.studies)) }

ConcurrentFetchResponses ==
    { resp \in GetStudyResponses :
        \/ resp.net = "timeout"
        \/ resp = McpOk(resp.data) /\ resp.data.protocol = "ok" /\ resp.data.contact = "ok" }

ConcurrentEvalResponses ==
    { resp \in EvalResponses :
        \/ ~resp.api_ok
        \/ /\ resp.api_ok
           /\ resp.fence = None
           /\ resp.brace # None
           /\ resp.brace[1].valid
           /\ resp.brace[1].obj.keys = RequiredKeys
           /\ resp.brace[1].obj.confidence_score.t = "num"
           /\ resp.brace[1].obj.match_status \in {"QUALIFIED", "NOT_QUALIFIED"} }

InFlight(f) == f.pc \in {"search", "loop", "evaluate"}

Overlaps(rs, r) == \E s \in DOMAIN rs : s # r /\ InFlight(rs[s])

\* Variant in which the accumulator is an attribute the runs share.
SharedFrame(rs, r) == [rs[r] EXCEPT !.matches = rs[1].matches]
\* `matches = []` and the other names of match_patient_to_trials are
\* local variables of the call; the matcher's attributes are set in
\* __init__ and only read afterwards.
Frame(rs, r) == rs[r]

\* Step 1 of run r: extract the conditions, fall back when none came.
RunExtract(r) ==
    /\ Frame(runs, r).pc = "extract"
    /\ \E resp \in ConcurrentExtractResponses :
         LET f == Frame(runs, r)
             extracted == _extract_conditions_from_patient_data(resp)
         IN  runs' = [runs EXCEPT ![r] =
                        [f EXCEPT !.conditions = (IF extracted = <<>>
                                                  THEN FallbackConditions ELSE extracted),
                                  !.pc = "search",
                                  !.overlap = @ \/ Overlaps(runs, r),
                                  !.heard.extract = Some(resp)]]
    /\ UNCHANGED MainVars

\* Step 2 of run r: search with max_studies = 2 * max_trials_to_return;
\* return [] at once when no id came back.  responses: the answers the
\* search may get.
RunSearchFrom(r, responses) ==
    /\ Frame(runs, r).pc = "search"
    /\ \E resp \in responses :
         LET f == Frame(runs, r)
             s == _search_trials_via_mcp(f.conditions, f.max_trials_to_return * 2, resp)
             g == [f EXCEPT !.overlap = @ \/ Overlaps(runs, r),
                            !.heard.search = Some(resp)]
         IN  runs' = [runs EXCEPT ![r] =
                        IF s.raised THEN [g EXCEPT !.pc = "raised"]
                        ELSE IF s.ids = <<>>
                        THEN [g EXCEPT !.pc = "done", !.result = Some(<<>>)]
                        ELSE [g EXCEPT !.pc = "loop", !.trial_ids = s.ids, !.i = 1]]
    /\ UNCHANGED MainVars

RunSearch(r) == RunSearchFrom(r, ConcurrentSearchResponses)

\* Loop body of run r, first half: fetch candidate i; None or an exception
\* moves on to the next candidate.
RunFetch(r) ==
    /\ Frame(runs, r).pc = "loop"
    /\ Frame(runs, r).i <= Len(Frame(runs, r).trial_ids)
    /\ \E resp \in ConcurrentFetchResponses :
         LET f == Frame(runs, r)
             d == _get_trial_details_via_mcp(f.trial_ids[f.i], resp)
             g == [f EXCEPT !.overlap = @ \/ Overlaps(runs, r),
                            !.heard.fetch = Append(@, resp)]
         IN  runs' = [runs EXCEPT ![r] =
                        IF d.raised
                        THEN [g EXCEPT !.i = @ + 1, !.heard.evaluate = Append(@, None)]
                        ELSE IF d.trial = None
                        THEN [g EXCEPT !.i = ContinueAfterAbsent(@),
                                       !.heard.evaluate = Append(@, None)]
                        ELSE [g EXCEPT !.trial = d.trial, !.pc = "evaluate"]]
    /\ UNCHANGED MainVars

\* Loop body of run r, second half: evaluate the trial, append the match.
\* responses: the answers the evaluation may get.
RunEvaluateFrom(r, responses) ==
    /\ Frame(runs, r).pc = "evaluate"
    /\ \E resp \in responses :
         LET f == Frame(runs, r)
             match_result == _evaluate_single_trial(f.trial[1], f.i, resp)
         IN  runs' = [runs EXCEPT ![r] =
                        [f EXCEPT !.matches = Accumulate(@, match_result),
                                  !.i = @ + 1,
                                  !.trial = None,
                                  !.pc = "loop",
                                  !.overlap = @ \/ Overlaps(runs, r),
                                  !.heard.evaluate = Append(@, Some(resp))]]
    /\ UNCHANGED MainVars

RunEvaluate(r) == RunEvaluateFrom(r, ConcurrentEvalResponses)

\* After the loop of run r: sort in place, return the first
\* max_trials_to_return matches.
RunFinish(r) ==
    /\ Frame(runs, r).pc = "loop"
    /\ Frame(runs, r).i > Len(Frame(runs, r).trial_ids)
    /\ LET f == Frame(runs, r)
       IN  runs' = [runs EXCEPT ![r] =
                      [f EXCEPT !.matches = SortByConfidence(@),
                                !.result = Some(TopMatches(f.matches, f.max_trials_to_return)),
                                !.pc = "done"]]
    /\ UNCHANGED MainVars

\* Both matchers are constructed; the first run asks for one match, the
\* second for MaxResults.
InitConcurrent ==
    /\ mode = "remote"
    /\ api_key = TRUE
    /\ max_trials = 0
    /\ progress_callback = FALSE
    /\ pc = "concurrent"
    /\ trials_database = <<>>
    /\ trials = <<>>
    /\ conditions = <<>>
    /\ trial_ids = <<>>
    /\ i = 0
    /\ trial = None
    /\ matches = <<>>
    /\ result = None
    /\ report = None
    /\ events = <<>>
    /\ closed = FALSE
    /\ outcome = "running"
    /\ error = ""
    /\ log = [deidentify |-> 0, extract |-> <<>>, search |-> <<>>,
              fetch_calls |-> 0, eval_calls |-> 0, fetch |-> <<>>, evaluate |-> <<>>,
              fetch_failed |-> <<>>, verdict |-> <<>>]
    /\ no_sink_matches = <<>>
    /\ runs = [r \in Runs |-> NewFrame(IF r = 1 THEN 1 ELSE MaxResults)]

NextConcurrent ==
    \E r \in Runs :
        \/ RunExtract(r)
        \/ RunSearch(r)
        \/ RunFetch(r)
        \/ RunEvaluate(r)
        \/ RunFinish(r)

SpecConcurrent == InitConcurrent /\ [][NextConcurrent]_vars

\* What a call of match_patient_to_trials that hears the given responses
\* returns when it runs from start to end with nothing else in progress.
RECURSIVE RunAloneLoop(_, _, _, _)
RunAloneLoop(ids, heard, k, acc) ==
    IF k > Len(ids) THEN acc
    ELSE LET d == _get_trial_details_via_mcp(ids[k], heard.fetch[k])
         IN  IF d.raised \/ d.trial = None
             THEN RunAloneLoop(ids, heard, k + 1, acc)
             ELSE RunAloneLoop(ids, heard, k + 1,
                               Accumulate(acc, _evaluate_single_trial(
                                                   d.trial[1], k, heard.evaluate[k][1])))

RunAlone(max_trials_to_return, heard) ==
    LET extracted == _extract_conditions_from_patient_data(heard.extract[1])
        conds     == IF extracted = <<>> THEN FallbackConditions ELSE extracted
        s         == _search_trials_via_mcp(conds, max_trials_to_return * 2,
                                           heard.search[1])
    IN  IF s.ids = <<>> THEN <<>>
        ELSE TopMatches(RunAloneLoop(s.ids, heard, 1, <<>>), max_trials_to_return)

\* ------------------------------------------------- one run, long pages
\* One call of the remote match_patient_to_trials with any argument a
\* caller may pass (max_trials_to_return is not validated), a search
\* answer that may hold more studies than the page size asked for, or
\* studies without an identifier, and verdicts whose confidence may be
\* NaN.
PageStudyLists ==
    { AlternatingStudies(n) : n \in 0..(2 * MaxResults + 1) }
    \cup { << [kind |-> "study",   nctId |-> ""],
              [kind |-> "study",   nctId |-> "NCT1"],
              [kind |-> "nondict", nctId |-> ""],
              [kind |-> "study",   nctId |-> "NCT2"] >> }

PageSearchResponses ==
    { McpOk([t |-> "dict", studies_t |-> "list", studies |-> st]) : st \in PageStudyLists }

RunSearchPage(r) == RunSearchFrom(r, PageSearchResponses)

\* A verdict with every key whose confidence_score is the token NaN.
NanVerdict == Verdict(RequiredKeys, "QUALIFIED", JScore("nan", 0), <<"diagnosis">>, <<>>, <<>>)

PageEvalResponses ==
    ConcurrentEvalResponses
    \cup { [api_ok |-> TRUE, fence |-> None, brace |-> Some(JsonText(TRUE, NanVerdict)),
            first |-> Some(JsonText(TRUE, NanVerdict))] }

RunEvaluatePage(r) == RunEvaluateFrom(r, PageEvalResponses)

InitPage ==
    /\ mode = "remote"
    /\ api_key = TRUE
    /\ max_trials = 0
    /\ progress_callback = FALSE
    /\ pc = "page"
    /\ trials_database = <<>>
    /\ trials = <<>>
    /\ conditions = <<>>
    /\ trial_ids = <<>>
    /\ i = 0
    /\ trial = None
    /\ matches = <<>>
    /\ result = None
    /\ report = None
    /\ events = <<>>
    /\ closed = FALSE
    /\ outcome = "running"
    /\ error = ""
    /\ log = [deidentify |-> 0, extract |-> <<>>, search |-> <<>>,
              fetch_calls |-> 0, eval_calls |-> 0, fetch |-> <<>>, evaluate |-> <<>>,
              fetch_failed |-> <<>>, verdict |-> <<>>]
    /\ no_sink_matches = <<>>
    /\ \E m \in MaxTrialsDomain : runs = [r \in {1} |-> NewFrame(m)]

NextPage ==
    \/ RunExtract(1)
    \/ RunSearchPage(1)
    \/ RunFetch(1)
    \/ RunEvaluatePage(1)
    \/ RunFinish(1)

SpecPage == InitPage /\ [][NextPage]_vars

\* ----------------------------------------------------------- properties
MatchStatuses == {"QUALIFIED", "NOT_QUALIFIED", "NEEDS_MORE_INFO"}

Buffered == mode \in {"remote", "static"}

Returned == outcome = "returned"

IsPrefix(a, b) == Len(a) <= Len(b) /\ SubSeq(b, 1, Len(a)) = a

\* The candidates a list of matches came from.
Cands(ms) == {ms[k].cand : k \in 1..Len(ms)}

Last(s) == s[Len(s)]

\* C1: the list returned by match_patient_to_trials (remote variant behind
\* /match_trials, static variant) is no longer than max_results and its
\* confidence scores are non-increasing, for every max_results.
C1_LengthAndOrder ==
    (Buffered /\ Returned) =>
        /\ Len(result[1]) <= MaxTrialsToReturn
        /\ \A k \in 1..(Len(result[1]) - 1) :
             result[1][k].confidence_score >= result[1][k + 1].confidence_score

\* C2: every TrialMatch the evaluator produces has a match_status among
\* the three enumerators and a confidence_score within [0.0, 1.0] (0..100
\* per cent), whatever verdict the oracle returned.
C2_StatusAndConfidenceInRange ==
    \A k \in 1..Len(matches) :
        /\ matches[k].match_status \in MatchStatuses
        /\ matches[k].confidence_score >= 0
        /\ matches[k].confidence_score <= 100

\* C3: once the matcher is constructed, the remote match_patient_to_trials
\* returns a list for every oracle and trial-source response and never
\* raises; the configuration error is the only error a caller can receive.
C3_NeverRaisesAfterConstruction ==
    (mode = "remote" /\ outcome = "raised") => error = "config"

\* C4: in the stream, a run in which nothing failed but a candidate's
\* fetch, a candidate's evaluation or the search transport, and which the
\* consumer did not close, ends with the completion event, never with an
\* error event.
C4_StreamEndsWithCompletion ==
    (mode = "stream" /\ pc = "done" /\ outcome # "closed" /\ error \in {"", "detail"}) =>
        Last(events) = "complete"

\* C5: a candidate whose fetch returned absent is not evaluated, has no
\* entry in the accumulator or in the returned list, and the run goes on
\* with the next candidate (or finishes normally after the last one),
\* unless the consumer closes the stream first.
C5_AbsentFetchSkipsCandidate ==
    \A k \in 1..Len(log.fetch) :
        (mode # "static" /\ log.fetch[k] # <<>> /\ Range(log.fetch[k]) = {"absent"}) =>
            /\ log.evaluate[k] = <<>>
            /\ k \notin Cands(matches)
            /\ result # None => k \notin Cands(result[1])
            /\ IF k < Len(trial_ids)
               THEN \/ log.fetch[k + 1] # <<>>
                    \/ (pc = "loop" /\ i = k + 1)
                    \/ outcome = "closed"
               ELSE (pc = "loop" /\ i = k + 1) \/ Returned \/ outcome = "closed"

\* C5 witness: the first candidate's fetch returned absent and the run
\* returned a match for a later candidate.
C5_Witness ==
    /\ mode # "static"
    /\ Returned
    /\ Len(log.fetch) >= 2
    /\ log.fetch[1] = <<"absent">>
    /\ 2 \in Cands(result[1])

\* C6: a candidate whose verdict is malformed (call failed, no JSON
\* decodes, a required key is missing) gets no TrialMatch; and if no
\* candidate got a well-formed verdict the run returns [] although there
\* were candidates.
C6_MalformedVerdictDropped ==
    /\ \A k \in 1..Len(log.evaluate) :
         "malformed" \in Range(log.evaluate[k]) =>
             /\ k \notin Cands(matches)
             /\ result # None => k \notin Cands(result[1])
    /\ (Returned /\ \A k \in 1..Len(log.evaluate) :
                       "well_formed" \notin Range(log.evaluate[k]))
           => result = Some(<<>>)

\* C6 witness: two candidates, both evaluated, both verdicts malformed, and
\* the run returned [].
C6_Witness ==
    /\ Returned
    /\ NumCandidates = 2
    /\ \A k \in 1..2 : log.evaluate[k] = <<"malformed">>
    /\ result = Some(<<>>)

\* C7: in the matchers' loop a fetch or evaluate failure touches nothing
\* but its own candidate: the accumulator only grows (each step keeps it
\* as a prefix, the final sort keeps every element), the loop is left only
\* past the last candidate, and by then every candidate was fetched and
\* every fetched trial evaluated.
C7_FailureIsLocal ==
    [][ Buffered =>
          /\ (pc \in {"loop", "evaluate"} /\ pc' \in {"loop", "evaluate"})
                => IsPrefix(matches, matches')
          /\ Range(matches) \subseteq Range(matches')
          /\ (pc \in {"loop", "evaluate"} /\ pc' = "done") =>
                /\ outcome' = "returned"
                /\ \A k \in 1..NumCandidates :
                     IF mode = "static"
                     THEN Len(log'.evaluate[k]) = 1
                     ELSE /\ Len(log'.fetch[k]) = 1
                          /\ log'.fetch[k] = <<"detail">> => Len(log'.evaluate[k]) = 1
      ]_vars

\* C7 witness: the first candidate was matched, the second one's fetch
\* raised inside the loop, and the first match is in the returned list.
C7_Witness ==
    /\ mode = "remote"
    /\ Returned
    /\ Len(log.fetch) = 2
    /\ log.fetch[2] = <<"raised">>
    /\ Cands(result[1]) = {1}

\* C8: when the extractor yields nothing, the search is made with the
\* single fallback term, in the buffered orchestrator and in the stream.
C8_EmptyExtractionUsesFallback ==
    (log.search # <<>> /\ log.extract[1] = <<>>) =>
        log.search[1].conditions = FallbackConditions

\* C9: when the search returns no candidate the remote run is over at
\* once with [], no fetch and no evaluation was made, and the report is the
\* fixed sentence; any run without candidates returns [] with no such call.
C9_NoCandidates ==
    /\ (mode = "remote" /\ log.search # <<>> /\ trial_ids = <<>> /\ outcome # "raised") =>
          /\ pc = "done"
          /\ Returned
          /\ result = Some(<<>>)
          /\ report = Some(NoTrialsReport)
    /\ (Returned /\ NumCandidates = 0) =>
          /\ result = Some(<<>>)
          /\ log.fetch_calls = 0
          /\ log.eval_calls = 0
          /\ report # None => report = Some(NoTrialsReport)

\* C9 witness: the remote search gave no candidate and the run returned.
C9_Witness ==
    /\ mode = "remote"
    /\ Returned
    /\ log.search # <<>>
    /\ trial_ids = <<>>
    /\ report = Some(NoTrialsReport)

C11_SinkNeverAffectsResult ==
    (progress_callback /\ pc = "done") =>
        /\ error # "sink"
        /\ Returned => result = Some(TopMatches(no_sink_matches, MaxTrialsToReturn))

\* C12: a missing API key ends the run at construction before any work:
\* by the time the configuration error is surfaced no de-identification
\* call, oracle call or trial-source call was made and no status or
\* thinking event was emitted, in /match_trials and in the stream.
C12_ConfigErrorBeforeAnyWork ==
    error = "config" =>
        /\ log.deidentify = 0
        /\ log.extract = <<>>
        /\ log.search = <<>>
        /\ log.fetch_calls = 0
        /\ log.eval_calls = 0
        /\ events \in {<<>>, <<"error">>}

\* C13: no call is retried: the extractor makes exactly one oracle call
\* once its step has run, the search makes exactly one request, every
\* candidate the loop has passed got exactly one fetch request, every
\* candidate gets at most one evaluation call, and the totals are the
\* numbers of candidates fetched and evaluated, whether the calls succeed
\* or fail.
C13_NoRetry ==
    /\ Len(log.extract) <= 1
    /\ Len(log.search) <= 1
    /\ (mode # "static" /\ pc \in {"search", "loop", "evaluate"}) => Len(log.extract) = 1
    /\ (mode # "static" /\ pc \in {"loop", "evaluate"}) => Len(log.search) = 1
    /\ \A k \in 1..Len(log.fetch) :
         /\ Len(log.fetch[k]) <= 1
         /\ Len(log.evaluate[k]) <= 1
         /\ (mode # "static" /\ pc \in {"loop", "evaluate"} /\ k < i) => Len(log.fetch[k]) = 1
    /\ log.fetch_calls = Cardinality({k \in 1..Len(log.fetch) : log.fetch[k] # <<>>})
    /\ log.eval_calls = Cardinality({k \in 1..Len(log.evaluate) : log.evaluate[k] # <<>>})

\* C13 witness: a finished remote run whose first fetch failed and whose
\* second candidate got a malformed verdict: two fetch requests and one
\* evaluation call were made in all.
C13_Witness ==
    /\ mode = "remote"
    /\ Returned
    /\ Len(log.fetch) = 2
    /\ log.fetch[1] = <<"absent">>
    /\ log.fetch_failed[1] = <<TRUE>>
    /\ log.evaluate[2] = <<"malformed">>
    /\ log.fetch_calls = 2
    /\ log.eval_calls = 1

\* C14: every failure mode of the trial-source transport (timeout,
\* connection failure, non-200 status, no payload event, an envelope that
\* does not decode or lacks result / content / text, embedded JSON that
\* does not decode) is resolved without raising: the search returns no
\* candidate and the fetch returns absent; and a run whose search failed
\* never raises and ends with zero matches.
C14_TransportFailuresResolved ==
    /\ \A k \in 1..Len(log.search) :
         log.search[k].failed => log.search[k].returned = "empty"
    /\ \A k \in 1..Len(log.fetch_failed) :
         \A j \in 1..Len(log.fetch_failed[k]) :
            log.fetch_failed[k][j] => log.fetch[k][j] = "absent"
    /\ (log.search # <<>> /\ log.search[1].failed) =>
          /\ outcome # "raised"
          /\ mode = "remote" => pc = "done"
          /\ (pc = "done" /\ ~closed) => (Returned /\ result = Some(<<>>))

\* C14 witness: the remote search met a transport failure and the run
\* returned no match.
C14_Witness ==
    /\ mode = "remote"
    /\ log.search # <<>>
    /\ log.search[1].failed
    /\ Returned
    /\ result = Some(<<>>)

TerminalEvents == {"complete", "error"}

\* C15: the events of the stream are status / thinking events followed,
\* when the generator has run to its end, by exactly one terminal event:
\* the completion event of a run that finished, carrying the match list
\* and the report, or the error event of a run that raised; no terminal
\* event is emitted earlier and none is followed by another event.
C15_OneTerminalEvent ==
    mode = "stream" =>
        /\ \A k \in 1..(Len(events) - 1) : events[k] \in {"status", "thinking"}
        /\ pc # "done" => \A k \in 1..Len(events) : events[k] \notin TerminalEvents
        /\ (pc = "done" /\ ~closed) =>
              /\ events # <<>>
              /\ Last(events) \in TerminalEvents
              /\ Last(events) = "complete" <=> Returned
              /\ Last(events) = "error" <=> outcome = "raised"
              /\ Returned => (result # None /\ report = Some(generate_report(result[1])))

\* C15 witness: a stream that ended with the completion event after
\* evaluating a candidate into a match.
C15_Witness ==
    /\ mode = "stream"
    /\ Returned
    /\ Last(events) = "complete"
    /\ Len(result[1]) = 1
    /\ log.eval_calls = 1

\* C16: once the consumer has closed the stream the generator starts no
\* further call: from a state in which the stream is closed no step makes
\* a de-identification, extraction, search, fetch or evaluation call,
\* moves to another candidate or emits an event (the call that was in
\* flight when the consumer closed has completed by then).
C16_NoCallAfterClose ==
    [][ closed =>
          /\ log'.deidentify = log.deidentify
          /\ log'.extract = log.extract
          /\ log'.search = log.search
          /\ log'.fetch_calls = log.fetch_calls
          /\ log'.eval_calls = log.eval_calls
          /\ log'.fetch = log.fetch
          /\ log'.evaluate = log.evaluate
          /\ i' = i
          /\ events' = events
      ]_vars

\* C16 witness: a stream closed after the first of two candidates was
\* fetched ended with no evaluation and nothing done for the second.
C16_Witness ==
    /\ mode = "stream"
    /\ outcome = "closed"
    /\ Len(trial_ids) = 2
    /\ log.fetch[1] = <<"detail">>
    /\ log.evaluate[1] = <<>>
    /\ log.fetch[2] = <<>>
    /\ log.fetch_calls = 1
    /\ log.eval_calls = 0

C18_WellFormedVerdictGivesMatch ==
    (mode = "static" /\ Returned /\ Len(trials) <= MaxTrialsToReturn) =>
        \A k \in 1..Len(trials) :
            log.evaluate[k] = <<"well_formed">> =>
                LET of_k == { n \in 1..Len(result[1]) : result[1][n].cand = k }
                IN  /\ Cardinality(of_k) = 1
                    /\ \A n \in of_k :
                          /\ result[1][n].trial_id = trials[k].trial_id
                          /\ result[1][n].confidence_score = log.verdict[k][1][1]

\* C20: the list carried by the stream's completion event is the list
\* match_patient_to_trials returns for the same responses: the accumulated
\* matches in descending confidence, cut to the default max_trials, found
\* by searching for the extracted conditions or, when none were
\* extracted, for the fallback term.
C20_StreamEqualsBuffered ==
    (mode = "stream" /\ Returned) =>
        /\ result = Some(TopMatches(matches, DefaultMaxTrials))
        /\ log.search[1].conditions =
              (IF log.extract[1] = <<>> THEN FallbackConditions ELSE log.extract[1])

\* C19: when two calls of match_patient_to_trials on matchers of their own
\* run concurrently, in any interleaving of their collaborator calls, each
\* call returns the list it returns for the same responses when it runs
\* alone.
C19_RunsDoNotInterfere ==
    \A r \in DOMAIN runs :
        runs[r].pc = "done" =>
            runs[r].result = Some(RunAlone(runs[r].max_trials_to_return, runs[r].heard))

\* C19 witness: both runs have returned, each made calls while the other
\* was in flight, and they returned different non-empty lists.
C19_Witness ==
    /\ DOMAIN runs = Runs
    /\ \A r \in Runs : runs[r].pc = "done" /\ runs[r].overlap /\ runs[r].result[1] # <<>>
    /\ runs[1].result # runs[2].result

\* What the call log shows of the order of work at any moment: the search
\* follows the extraction and every fetch follows the search; nothing has
\* been done for a candidate after the current one; a candidate was
\* evaluated only after its fetch gave a trial; a candidate whose callback
\* raised was neither fetched nor evaluated.
C21_InOrder ==
    /\ log.search # <<>> => log.extract # <<>>
    /\ log.fetch_calls > 0 => log.search # <<>>
    /\ \A k \in 1..Len(log.fetch) :
         /\ k > i => log.fetch[k] = <<>> /\ log.evaluate[k] = <<>>
         /\ (k = i /\ pc = "evaluate") =>
               log.fetch[k] = <<"detail">> /\ log.evaluate[k] = <<>>
         /\ (mode # "static" /\ log.evaluate[k] # <<>>) => log.fetch[k] = <<"detail">>
         /\ "sink" \in Range(log.fetch[k]) =>
               log.fetch[k] = <<"sink">> /\ log.evaluate[k] = <<>>

\* A step of the loop never goes back, moves on by one candidate at most,
\* and leaves what was logged for the earlier candidates as it was.
C21_LoopStep ==
    pc \in {"loop", "evaluate"} =>
        /\ i' >= i
        /\ i' <= i + 1
        /\ \A k \in 1..(i - 1) :
             log'.fetch[k] = log.fetch[k] /\ log'.evaluate[k] = log.evaluate[k]

\* C21: candidates are processed one at a time in retrieval order: the
\* extraction precedes the search, which precedes every fetch; callback,
\* fetch and evaluation of a candidate come in that order and before any
\* work on the next candidate; a candidate is evaluated only after its
\* fetch gave a trial; the loop never goes back, and what was done for an
\* earlier candidate is not touched again.
C21_OneAtATimeInOrder ==
    []C21_InOrder /\ [][C21_LoopStep]_vars

\* C21 witness: a remote run fetched and evaluated two candidates, one
\* after the other.
C21_Witness ==
    /\ mode = "remote"
    /\ Returned
    /\ Len(trial_ids) = 2
    /\ i = 3
    /\ \A k \in 1..2 : log.fetch[k] = <<"detail">> /\ Len(log.evaluate[k]) = 1

\* The oracle calls a run has made: the extraction and the evaluations.
OracleCalls(f) ==
    (IF f.heard.extract = None THEN 0 ELSE 1)
    + Cardinality({ k \in 1..Len(f.heard.evaluate) : f.heard.evaluate[k] # None })

\* C22: a remote run asks the search for 2 * max_trials_to_return studies
\* and gets at most that many candidate ids, which are the identified
\* studies of the answer in answer order; so it makes at most
\* 2 * max_trials_to_return fetch calls and at most
\* 1 + 2 * max_trials_to_return oracle calls (no fetch and one oracle call
\* when max_trials_to_return is not positive).
C22_PageSizeBoundsCalls ==
    \A r \in DOMAIN runs :
        LET f    == runs[r]
            page == Max(0, 2 * f.max_trials_to_return)
        IN  f.heard.search # None =>
              /\ Len(f.trial_ids) <= page
              /\ IsPrefix(f.trial_ids, NctIds(f.heard.search[1].data.studies))
              /\ Len(f.heard.fetch) <= page
              /\ OracleCalls(f) <= 1 + page

\* A block carries a trial id when the id pattern finds one in it.
CarriesTrialId(b) == b.id # None

\* C23: the static matcher's parse keeps exactly the blocks that carry a
\* trial id, in file order; no condition is extracted and no search is
\* made, and a run that returns has evaluated every parsed trial once.
C23_StaticParsesAndEvaluatesAll ==
    (mode = "static" /\ (pc = "loop" \/ Returned)) =>
        LET carried == SelectSeq(trials_database, CarriesTrialId)
        IN  /\ Len(trials) = Len(carried)
            /\ \A k \in 1..Len(trials) :
                 k <= Len(carried) => trials[k].trial_id = carried[k].id[1]
            /\ log.extract = <<>> /\ log.search = <<>>
            /\ Returned =>
                 /\ log.eval_calls = Len(trials)
                 /\ \A k \in 1..Len(trials) : Len(log.evaluate[k]) = 1

\* C24: within one run every trial that is evaluated has a non-empty
\* trial_id, no two evaluated trials share a trial_id, and no trial_id
\* appears twice in the returned list.
C24_UniqueTrialIds ==
    /\ \A k \in 1..Len(trials) : trials[k].trial_id # ""
    /\ \A k \in 1..Len(trial_ids) : trial_ids[k] # ""
    /\ \A a, b \in 1..Len(matches) :
         a # b => matches[a].trial_id # matches[b].trial_id
    /\ Returned =>
         \A a, b \in 1..Len(result[1]) :
             a # b => result[1][a].trial_id # result[1][b].trial_id

\* C25: every trial dict the remote fetch returns, and so every trial
\* handed to the evaluator by the remote matcher or the stream, has a
\* non-empty full_text.
C25_FullTextNeverEmpty ==
    (mode # "static" /\ trial # None) => trial[1].full_text # <<>>

\* C26: an evaluation answer with no fenced object whose first
\* brace-delimited object is a usable verdict gives a match for the
\* candidate, whatever follows that object in the answer.
C26_FirstObjectGivesMatch ==
    \A k \in 1..Len(log.evaluate) :
        (/\ mode # "static"
         /\ Range(log.evaluate[k]) \cap {"well_formed", "first_object"} # {}
         /\ pc \in {"loop", "done"}
         /\ outcome # "raised") =>
            k \in Cands(matches)

\* C27: for a non-negative max_trials_to_return the list a run returns is
\* the head of its accumulated matches in descending confidence: its
\* elements are accumulated matches, no accumulated match left out has a
\* confidence strictly greater than one that is returned, all of them are
\* returned when they are at most max_trials_to_return, and the list has
\* max_trials_to_return elements or all of them.
C27_TopOfDescendingOrder ==
    \A r \in DOMAIN runs :
        LET f   == runs[r]
            res == f.result[1]
            out == { k \in 1..Len(f.matches) : f.matches[k].cand \notin Cands(res) }
        IN  (f.pc = "done" /\ f.max_trials_to_return >= 0) =>
              /\ \A n \in 1..Len(res) : \E k \in 1..Len(f.matches) : f.matches[k] = res[n]
              /\ Cardinality(Cands(res)) = Len(res)
              /\ \A k \in out : \A n \in 1..Len(res) :
                   ~Lt(res[n].confidence_score, f.matches[k].confidence_score)
              /\ Len(f.matches) <= f.max_trials_to_return => Len(res) = Len(f.matches)
              /\ Len(res) = Min(f.max_trials_to_return, Len(f.matches))

\* The positions of the lines of one kind in a report, and the block a
\* line belongs to: the number of block rules up to it.
Positions(rep, kind) == { p \in 1..Len(rep) : rep[p].k = kind }

BlockOf(rep, p) == Cardinality({ q \in Positions(rep, "rule") : q <= p })

LinesIn(rep, kind, n) == { p \in Positions(rep, kind) : BlockOf(rep, p) = n }

\* C28: a report rendered from a non-empty list has one block per match,
\* numbered 1..n in the order of the list, each with the name and the id of
\* the match at that position, and a block shows each of the three
\* criteria sections exactly when the match's list is non-empty.
C28_OneBlockPerMatchInOrder ==
    (report # None /\ result # None /\ result[1] # <<>> /\ pc = "done") =>
        LET rep == report[1]
            ms  == result[1]
        IN  /\ Cardinality(Positions(rep, "rule")) = Len(ms)
            /\ \A n \in 1..Len(ms) :
                 /\ \E p \in 1..Len(rep) :
                      /\ LinesIn(rep, "name", n) = {p}
                      /\ rep[p].n = n
                      /\ rep[p].text = ms[n].trial_name
                 /\ \E p \in 1..Len(rep) :
                      /\ LinesIn(rep, "Trial ID", n) = {p}
                      /\ rep[p].text = ms[n].trial_id
                 /\ Cardinality(LinesIn(rep, "Inclusion Criteria Met", n))
                      = (IF ms[n].inclusion_criteria_met # <<>> THEN 1 ELSE 0)
                 /\ Cardinality(LinesIn(rep, "Inclusion Criteria Not Met", n))
                      = (IF ms[n].inclusion_criteria_not_met # <<>> THEN 1 ELSE 0)
                 /\ Cardinality(LinesIn(rep, "Exclusion Criteria Violated", n))
                      = (IF ms[n].exclusion_criteria_violated # <<>> THEN 1 ELSE 0)

\* C28 witness: a report of two matches, the first of which is the second
\* candidate, with a criteria list that is empty in one match and not in
\* the other.
C28_Witness ==
    /\ pc = "done"
    /\ report # None /\ report # Some(NoTrialsReport)
    /\ result # None
    /\ Len(result[1]) = 2
    /\ result[1][1].cand = 2
    /\ result[1][1].inclusion_criteria_met = <<>>
    /\ result[1][2].inclusion_criteria_met # <<>>

\* The number a header line of a report shows.
HeaderCount(rep, kind) ==
    LET p == CHOOSE q \in Positions(rep, kind) : BlockOf(rep, q) = 0 IN rep[p].n

\* C29: in a report rendered from the list a matcher returned, the counts
\* of Qualified, Not Qualified and Needs More Information sum to the total
\* number of trials.
C29_StatusCountsSumToTotal ==
    (pc = "done" /\ mode \in {"remote", "static"} /\ outcome = "returned"
       /\ result # None /\ result[1] # <<>>
       /\ report = Some(generate_report(result[1]))) =>
        LET rep == report[1]
        IN  HeaderCount(rep, "Qualified") + HeaderCount(rep, "Not Qualified")
              + HeaderCount(rep, "Needs More Information")
            = HeaderCount(rep, "Total Trials Evaluated")

\* The candidate ids of the run: the ids the search returned, or the ids
\* of the parsed trials.
CandidateIds ==
    IF mode = "static" THEN { trials[k].trial_id : k \in 1..Len(trials) }
    ELSE { trial_ids[k] : k \in 1..Len(trial_ids) }

\* The trial dict the loop body evaluates in the current state.
EvaluatedTrial == IF mode = "static" THEN trials[i] ELSE trial[1]

C30_ReturnedIdsAreCandidates ==
    (pc = "done" /\ outcome = "returned" /\ result # None) =>
        \A n \in 1..Len(result[1]) :
            /\ result[1][n].trial_id \in CandidateIds
            /\ result[1][n].trial_id # OracleIdentity.trial_id
            /\ result[1][n].trial_name # OracleIdentity.trial_name
            /\ result[1][n].contact_info # OracleIdentity.contact_info

C30_EvaluationStep ==
    Len(matches') > Len(matches) =>
        LET m == matches'[Len(matches')]
            t == EvaluatedTrial
        IN  /\ m.trial_id = t.trial_id
            /\ m.trial_id \in CandidateIds
            /\ m.trial_name = t.trial_name[1]
            /\ m.contact_info = (IF t.contact_info # None THEN t.contact_info[1]
                                 ELSE DefaultContact)

\* C30: a match takes its trial id, its name and its contact from the
\* trial dict that was evaluated, with the sentinel for a trial that has no
\* contact, whatever keys the oracle's verdict carries; every returned
\* match has the id of a candidate of the run.
C30_IdentityFromTrialDetail == []C30_ReturnedIdsAreCandidates /\ [][C30_EvaluationStep]_vars

\* C30 witness: a returned run whose first match has the id of a
\* candidate and the sentinel contact of a trial dict with no contact.
C30_Witness ==
    /\ pc = "done" /\ outcome = "returned"
    /\ result # None /\ Len(result[1]) >= 1
    /\ result[1][1].contact_info = DefaultContact
    /\ result[1][1].trial_id \in CandidateIds

====
